---- MODULE Spec2Model ----
(***************************************************************************)
(* Model of DynamicArray (src/src/credentials/dynamic-array.ts): a         *)
(* fixed-capacity backing array plus a runtime length, with identity-keyed *)
(* caches, driven through one constraint-building pass.                    *)
(*                                                                         *)
(* A pass is run with concrete witness values.  Every operation performs   *)
(* the assignments of its code in order; an assertion that fails on the    *)
(* witness makes the constraint system unsatisfiable (sat = FALSE) and     *)
(* ends the pass at that point, as the thrown error does in the prover.    *)
(***************************************************************************)
EXTENDS Integers, Sequences, FiniteSets, TLC

VARIABLES insts, indexMasks, indicesInRange, sat, last, ops

vars == <<insts, indexMasks, indicesInRange, sat, last, ops>>

\* ---------------------------------------------------------------- bounds
MaxInst == 2          \* instances alive in one pass
MaxCap  == 2          \* largest maxLength of a DynamicArray type
MaxVal  == 1          \* element values are 0..MaxVal (NULL is 0)
MaxOps  == 4          \* calls in one pass after its first instance is built

\* ------------------------------------------------------ program constants
FieldBits  == 254     \* bits packed into one field element (half block)
UInt32Bits == 32      \* bits reserved for the length prefix
MaxLengthLimit == 65536  \* maxLength < 2^16

\* bitSize(type) of the element types hash() is modelled for: a 2-bit type
\* (many elements per block) and a full-field type (one element per half
\* block). No other operation reads the element type.
ElementSizes == {2, 254}

Min(x, y) == IF x < y THEN x ELSE y
Max(x, y) == IF x < y THEN y ELSE x

\* values of the element type
Values == 0 .. MaxVal

\* ProvableType.synthesize(type): the canonical empty element
NULL == 0

Caps == 0 .. MaxCap

\* index values a caller queries with: MaxCap is outside of every backing array
MaxIdx == MaxCap

\* A Field object is named by <<tag, owner, value>>: caches are keyed by the
\* object, and an object never changes its value.
IdxField(v) == <<"idx", 0, v>>
LenField(owner, v) == <<"len", owner, v>>
FieldValue(f) == f[3]

\* ------------------------------------------------------------ util.ts
fill(n, x) == [j \in 1..n |-> x]

pad(array, size, x) == array \o fill(size - Len(array), x)

chunk(array, size) ==
  [k \in 1 .. (Len(array) \div size) |-> SubSeq(array, (k-1)*size + 1, k*size)]

slice(array, n) == SubSeq(array, 1, Min(n, Len(array)))

\* ------------------------------------------------------------ instances
\* array: the backing store; length/lenOwner: the length Field object;
\* masksRef/rangeRef: which Map/Set object the instance holds (map() hands
\* its own objects to the new instance); dummy: __dummyMask
NoMask == [def |-> FALSE, mask |-> <<>>]

NewInstance(cap, array, length, lenOwner, self) ==
  [cap |-> cap, array |-> array, length |-> length, lenOwner |-> lenOwner,
   masksRef |-> self, rangeRef |-> self, dummy |-> NoMask]

LengthField(r) == LenField(r.lenOwner, r.length)

Arrays(cap) == [1..cap -> Values]

\* what the last call was and what it returned: the instance a it was called
\* on, its index i and value v, err ("none", "unsat" for a failed assertion
\* of the circuit, "config" for a thrown configuration error), the returned
\* value(s) out, the returned flag, the returned instance ref, and the
\* callback fn the call was given ("none" for a call that takes none)
NoResult == [op |-> "none", a |-> 0, i |-> -1, v |-> -1, err |-> "none",
             out |-> <<>>, flag |-> FALSE, ref |-> 0, fn |-> "none"]

Result(op, a, i, v, err, out, flag, ref) ==
  [op |-> op, a |-> a, i |-> i, v |-> v, err |-> err, out |-> out,
   flag |-> flag, ref |-> ref, fn |-> "none"]

\* the result of a call that was given the callback fn
WithFn(result, fn) == [result EXCEPT !.fn = fn]

Running == sat /\ ops < MaxOps

CanCreate == Len(insts) < MaxInst

\* assertInRange16(length, maxLength)
InRange16(length, maxLength) == 0 <= length /\ length <= maxLength

\* assertLessThan16(i, length) and lessThan16(i, length), on 16-bit inputs
lessThan16(i, length) == i < length

\* --------------------------------------------------------------- masks
\* variant: an index beyond the array selects the last slot
IndexMaskClamped(i, n) == [j \in 1..n |-> Min(i, n - 1) = j - 1]

\* variant: slots compared one-based
IndexMaskOffByOne(i, n) == [j \in 1..n |-> i = j]

\* array.map((_, j) => i.equals(j))
IndexMaskOf(i, n) == [j \in 1..n |-> i = j - 1]

\* _indexMask(i): the cached mask of the Field object f, or a fresh one
indexMask(cache, f, n) ==
  IF f \in DOMAIN cache THEN cache[f] ELSE IndexMaskOf(FieldValue(f), n)

\* this._indexMasks.set(i, mask)
CacheMask(cache, f, mask) == (f :> mask) @@ cache

\* the running OR of _dummyMask: wasLength = wasLength.or(isLength)
OrScan(mask) == [j \in 1..Len(mask) |-> \E k \in 1..j : mask[k]]

\* _dummyMask(): the cached __dummyMask when there is one
dummyMask(r, cache) ==
  IF r.dummy.def THEN r.dummy.mask
  ELSE OrScan(indexMask(cache, LengthField(r), r.cap))

\* variant: computing the dummy mask also empties the slots it marks
InstsAfterDummyCleared(a) ==
  LET r == insts[a]
      mask == dummyMask(r, indexMasks[r.masksRef])
  IN [insts EXCEPT ![a].dummy = [def |-> TRUE, mask |-> mask],
                   ![a].array = [j \in 1..r.cap |->
                                   IF mask[j] THEN NULL ELSE r.array[j]]]

\* the caches of instance a after a call of _dummyMask()
InstsAfterDummy(a) ==
  LET r == insts[a] IN
  IF r.dummy.def THEN insts
  ELSE [insts EXCEPT ![a].dummy =
          [def |-> TRUE, mask |-> dummyMask(r, indexMasks[r.masksRef])]]

MasksAfterDummy(a) ==
  LET r == insts[a] IN
  IF r.dummy.def THEN indexMasks
  ELSE [indexMasks EXCEPT ![r.masksRef] =
          CacheMask(@, LengthField(r),
                    indexMask(@, LengthField(r), r.cap))]

\* ------------------------------------------------------ indexed access
\* getOrUnconstrained: the witness this.array[Number(i)] ?? NULL, which the
\* arrayGet constraints pin to slot i when i is inside the backing array
\* and leave unconstrained outside of it
getOrUnconstrained(r, i) ==
  IF i < r.cap THEN {r.array[i + 1]} ELSE Values

\* Provable.if(equalsIJ, value, t) over zip(this.array, mask)
setOrDoNothing(array, mask, value) ==
  [j \in 1..Len(array) |-> IF mask[j] THEN value ELSE array[j]]

\* variant: the whole backing array, padding included
toValueUntruncated(r) == r.array

\* there({array, length}): array.slice(0, Number(length))
toValue(r) == slice(r.array, r.length)

\* ----------------------------------------------------------------- hash
\* A field element that packs several elements is kept as its digits in
\* base 2^elementSize, least significant first, without trailing zeros.
Trim(ds) ==
  LET nz == {j \in 1..Len(ds) : ds[j] # 0} IN
  IF nz = {} THEN <<>>
  ELSE SubSeq(ds, 1, CHOOSE m \in nz : \A k \in nz : k <= m)

\* packToField(x, type): an element as one field element
packToField(x) == Trim(<<x>>)

\* pack(chunks, chunkSize): sum of chunks[j] * 2^(j * chunkSize); digit k of
\* the sum collects the digits the chunks have at that place
RECURSIVE SumAt(_, _, _)
SumAt(chunks, js, k) ==
  IF js = {} THEN 0
  ELSE LET j == CHOOSE x \in js : TRUE
       IN chunks[j][k - j + 1] + SumAt(chunks, js \ {j}, k)

pack(chunks, es) ==
  LET used  == {j \in 1..Len(chunks) : chunks[j] # <<>>}
      ends  == {j - 1 + Len(chunks[j]) : j \in used}
      width == IF used = {} THEN 0 ELSE CHOOSE m \in ends : \A e \in ends : e <= m
  IN Trim([k \in 1..width |->
             SumAt(chunks, {j \in used : j <= k /\ k - j + 1 <= Len(chunks[j])}, k)])

\* the base of one digit, or 0 when a digit is too wide to carry out of
DigitBase(es) == IF es < 30 THEN 2 ^ es ELSE 0

\* Field.add of a small number n to a packed field element
RECURSIVE addDigits(_, _, _)
addDigits(ds, n, base) ==
  IF n = 0 THEN ds
  ELSE LET d0   == IF ds = <<>> THEN 0 ELSE Head(ds)
           rest == IF ds = <<>> THEN <<>> ELSE Tail(ds)
       IN IF base = 0 THEN <<d0 + n>> \o rest
          ELSE <<(d0 + n) % base>> \o addDigits(rest, (d0 + n) \div base, base)

fieldAdd(ds, n, es) == Trim(addDigits(ds, n, DigitBase(es)))

CeilDiv(x, y) == (x + y - 1) \div y

elementsPerHalfBlock(es) ==
  LET size == IF es = 0 THEN 1 ELSE es
      n == FieldBits \div size
  IN IF n = 0 THEN 1 ELSE n

elementsPerBlock(es) == 2 * elementsPerHalfBlock(es)

elementsPerUint32(es) ==
  LET size == IF es = 0 THEN 1 ELSE es IN Max(UInt32Bits \div size, 1)

maxBlocks(cap, es) == CeilDiv(elementsPerUint32(es) + cap, elementsPerBlock(es))

\* variant: ceil(length / elementsPerBlock), the length prefix left out
nBlocksOfLength(length, es) ==
  (length + elementsPerBlock(es) - 1) \div elementsPerBlock(es)

\* UInt32.Unsafe.fromField(length + elementsPerUint32 + elementsPerBlock - 1)
\*   .div(elementsPerBlock)
nBlocks(length, es) ==
  (length + elementsPerUint32(es) + elementsPerBlock(es) - 1)
    \div elementsPerBlock(es)

\* variant: the length is left out of the first block
addNoLength(blocks, length, es) == blocks

\* add length to the first block
addLength(blocks, length, es) ==
  [blocks EXCEPT ![1] = <<fieldAdd(blocks[1][1], length, es), blocks[1][2]>>]

\* variant: blocks are built only as far as the length reaches
hashBlocksUsed(r, es) ==
  LET size    == IF es = 0 THEN 1 ELSE es
      fields  == [j \in 1..r.cap |-> packToField(r.array[j])]
      array   == fill(elementsPerUint32(es), <<>>) \o fields
      padded  == pad(array, maxBlocks(r.cap, es) * elementsPerBlock(es),
                     packToField(NULL))
      chunked == chunk(padded, elementsPerBlock(es))
      blocks  == [k \in 1..nBlocks(r.length, es) |->
                   <<pack(SubSeq(chunked[k], 1, elementsPerHalfBlock(es)), size),
                     pack(SubSeq(chunked[k], elementsPerHalfBlock(es) + 1,
                                 elementsPerBlock(es)), size)>>]
  IN addLength(blocks, r.length, es)

\* the [Field, Field] blocks of hash(), with the length added to the first
hashBlocks(r, es) ==
  LET size    == IF es = 0 THEN 1 ELSE es
      fields  == [j \in 1..r.cap |-> packToField(r.array[j])]
      array   == fill(elementsPerUint32(es), <<>>) \o fields
      padded  == pad(array, maxBlocks(r.cap, es) * elementsPerBlock(es),
                     packToField(NULL))
      chunked == chunk(padded, elementsPerBlock(es))
      blocks  == [k \in 1..Len(chunked) |->
                   <<pack(SubSeq(chunked[k], 1, elementsPerHalfBlock(es)), size),
                     pack(SubSeq(chunked[k], elementsPerHalfBlock(es) + 1,
                                 elementsPerBlock(es)), size)>>]
  IN addLength(blocks, r.length, es)

\* Poseidon.initialState() and Poseidon.update(state, block), taken as
\* collision free: the state is the sequence of the blocks absorbed
PoseidonInitialState == <<>>
PoseidonUpdate(state, block) == Append(state, block)

\* variant: every block updates the state, padding blocks included
RECURSIVE absorbAll(_, _, _, _)
absorbAll(state, blocks, isPadding, k) ==
  IF k > Len(blocks) THEN state
  ELSE absorbAll(PoseidonUpdate(state, blocks[k]), blocks, isPadding, k + 1)

\* dynBlocks.forEach: a fresh DynamicArray of blocks of length nBlocks,
\* whose own dummy mask gates the update of the state
RECURSIVE absorb(_, _, _, _)
absorb(state, blocks, isPadding, k) ==
  IF k > Len(blocks) THEN state
  ELSE absorb(IF isPadding[k] THEN state ELSE PoseidonUpdate(state, blocks[k]),
              blocks, isPadding, k + 1)

hashValue(r, es) ==
  LET blocks == hashBlocks(r, es)
      isPadding == OrScan(IndexMaskOf(nBlocks(r.length, es), Len(blocks)))
  IN absorb(PoseidonInitialState, blocks, isPadding, 1)

\* Provable.assertEqualIf(isPadding, Field, x, NULL) for every slot
paddingIsNull(r, dummy) ==
  \A j \in 1..r.cap :
     dummy[j] => packToField(r.array[j]) = packToField(NULL)

\* ------------------------------------------------------------- actions
Insts == 1 .. Len(insts)

Step == ops' = ops + 1

\* a call that changes neither an instance nor a cache is explored as the
\* last call of a pass: the calls after it would find the instances and the
\* caches of the state before it
Read == ops' = MaxOps

\* a new object with its own (empty) _indexMasks and _indicesInRange
Allocate(r) ==
  /\ insts' = Append(insts, r)
  /\ indexMasks' = Append(indexMasks, <<>>)
  /\ indicesInRange' = Append(indicesInRange, {})

\* backAndDistinguish on a plain array: pad with NULL, length = array.length
fromArray(cap, xs, self) ==
  NewInstance(cap, pad(xs, cap, NULL), Len(xs), self, self)

\* provable: forConstructor + withAdditionalCheck. A witnessed instance has
\* arbitrary slots and an arbitrary length; the check constrains the length.
Witnessed(cap, array, length) ==
  /\ insts = <<NewInstance(cap, array, length, 1, 1)>>
  /\ sat = InRange16(length, cap)
  /\ last = Result("witness", 1, -1, -1,
                   IF InRange16(length, cap) THEN "none" ELSE "unsat",
                   <<>>, FALSE, 1)

\* DynamicArray_.from(xs) of a plain array that fits
Converted(cap, xs) ==
  /\ insts = <<fromArray(cap, xs, 1)>>
  /\ sat = TRUE
  /\ last = Result("from", 0, cap, -1, "none", xs, FALSE, 1)

\* a pass starts with its first instance constructed
Init ==
  /\ \/ \E cap \in Caps : \E array \in Arrays(cap) :
          \E length \in 0 .. cap + 1 : Witnessed(cap, array, length)
     \/ \E cap \in Caps : \E n \in 0 .. cap :
          \E xs \in [1..n -> Values] : Converted(cap, xs)
  /\ indexMasks = << <<>> >>
  /\ indicesInRange = <<{}>>
  /\ ops = 0

\* DynamicArray_.from(input) with a DynamicArray: the input itself when the
\* maxLength is the same, else a conversion of input.toValue()
FromInstance(a, cap) ==
  /\ Running /\ CanCreate
  /\ LET r == insts[a]
         self == Len(insts) + 1
     IN IF r.cap = cap
        THEN /\ last' = Result("from", a, cap, -1, "none", toValue(r), FALSE, a)
             /\ UNCHANGED <<insts, indexMasks, indicesInRange>>
        ELSE IF Len(toValue(r)) > cap
        THEN /\ last' = Result("from", a, cap, -1, "config", toValue(r), FALSE, 0)
             /\ UNCHANGED <<insts, indexMasks, indicesInRange>>
        ELSE /\ Allocate(fromArray(cap, toValue(r), self))
             /\ last' = Result("from", a, cap, -1, "none", toValue(r), FALSE, self)
  /\ UNCHANGED sat
  /\ Step

\* assertIndexInRange(i): TRUE when the assertion passes or is skipped
indexInRange(r, i, cache) == IdxField(i) \in cache \/ lessThan16(i, r.length)

Get(a, i) ==
  /\ Running
  /\ LET r == insts[a] IN
     IF indexInRange(r, i, indicesInRange[r.rangeRef])
     THEN /\ indicesInRange' =
               [indicesInRange EXCEPT ![r.rangeRef] = @ \cup {IdxField(i)}]
          /\ \E w \in getOrUnconstrained(r, i) :
               last' = Result("get", a, i, -1, "none", <<w>>, FALSE, 0)
          /\ UNCHANGED sat
     ELSE /\ sat' = FALSE
          /\ last' = Result("get", a, i, -1, "unsat", <<>>, FALSE, 0)
          /\ UNCHANGED indicesInRange
  /\ UNCHANGED <<insts, indexMasks>>
  /\ Step

\* variant: presence decided by maxLength instead of length
isInsideArray(r, i) == i < r.cap

\* getOption(i): isSome of the returned Option
isContained(r, i) == lessThan16(i, r.length)

GetOption(a, i) ==
  /\ Running
  /\ LET r == insts[a] IN
     \E w \in getOrUnconstrained(r, i) :
        last' = Result("getOption", a, i, -1, "none", <<w>>,
                       isContained(r, i), 0)
  /\ UNCHANGED <<insts, indexMasks, indicesInRange, sat>>
  /\ Read

GetOrUnconstrained(a, i) ==
  /\ Running
  /\ LET r == insts[a] IN
     \E w \in getOrUnconstrained(r, i) :
        last' = Result("getOrUnconstrained", a, i, -1, "none", <<w>>, FALSE, 0)
  /\ UNCHANGED <<insts, indexMasks, indicesInRange, sat>>
  /\ Read

\* setOrDoNothing(i, value) on instance a with the Field object f as index
Write(a, f, value) ==
  LET r == insts[a]
      mask == indexMask(indexMasks[r.masksRef], f, r.cap)
  IN /\ insts' = [insts EXCEPT ![a].array = setOrDoNothing(r.array, mask, value)]
     /\ indexMasks' = [indexMasks EXCEPT ![r.masksRef] = CacheMask(@, f, mask)]

SetOrDoNothing(a, i, v) ==
  /\ Running
  /\ Write(a, IdxField(i), v)
  /\ last' = Result("setOrDoNothing", a, i, v, "none", <<>>, FALSE, 0)
  /\ UNCHANGED <<indicesInRange, sat>>
  /\ Step

Set(a, i, v) ==
  /\ Running
  /\ LET r == insts[a] IN
     IF indexInRange(r, i, indicesInRange[r.rangeRef])
     THEN /\ indicesInRange' =
               [indicesInRange EXCEPT ![r.rangeRef] = @ \cup {IdxField(i)}]
          /\ Write(a, IdxField(i), v)
          /\ last' = Result("set", a, i, v, "none", <<>>, FALSE, 0)
          /\ UNCHANGED sat
     ELSE /\ sat' = FALSE
          /\ last' = Result("set", a, i, v, "unsat", <<>>, FALSE, 0)
          /\ UNCHANGED <<insts, indexMasks, indicesInRange>>
  /\ Step

\* variant: the new length is not range-checked
pushUnchecked(r) == TRUE

\* push(value): assertInRange16(this.length, this.maxLength) on the new length
pushInRange(r) == InRange16(r.length + 1, r.cap)

\* push(value): the length is replaced first, then range-checked, then the
\* value is written at the old length
Push(a, v) ==
  /\ Running
  /\ LET r == insts[a]
         oldLength == LengthField(r)
         mask == indexMask(indexMasks[r.masksRef], oldLength, r.cap)
     IN IF pushInRange(r)
        THEN /\ insts' = [insts EXCEPT
                  ![a].length = r.length + 1,
                  ![a].lenOwner = a,
                  ![a].array = setOrDoNothing(r.array, mask, v)]
             /\ indexMasks' =
                  [indexMasks EXCEPT ![r.masksRef] = CacheMask(@, oldLength, mask)]
             /\ last' = Result("push", a, -1, v, "none", <<>>, FALSE, 0)
             /\ UNCHANGED sat
        ELSE /\ insts' = [insts EXCEPT ![a].length = r.length + 1,
                                       ![a].lenOwner = a]
             /\ sat' = FALSE
             /\ last' = Result("push", a, -1, v, "unsat", <<>>, FALSE, 0)
             /\ UNCHANGED indexMasks
  /\ UNCHANGED indicesInRange
  /\ Step

\* the callbacks map() is called with
MapFns == {"same", "next", "index"}

Apply(fn, x, j) ==
  CASE fn = "same"  -> x
    [] fn = "next"  -> IF x + 1 \in Values THEN x + 1 ELSE 0
    [] fn = "index" -> IF j \in Values THEN j ELSE 0

\* variant: the callback is applied to the slots below the length only
mapInstancePrefix(r, fn) ==
  [cap |-> r.cap,
   array |-> [j \in 1..r.cap |->
                IF j <= r.length THEN Apply(fn, r.array[j], j - 1) ELSE NULL],
   length |-> r.length, lenOwner |-> r.lenOwner,
   masksRef |-> r.masksRef, rangeRef |-> r.rangeRef, dummy |-> r.dummy]

\* map(type, f): a new object of the same maxLength that is given the
\* length object and the three cache objects of this
mapInstance(r, fn) ==
  [cap |-> r.cap,
   array |-> [j \in 1..r.cap |-> Apply(fn, r.array[j], j - 1)],
   length |-> r.length, lenOwner |-> r.lenOwner,
   masksRef |-> r.masksRef, rangeRef |-> r.rangeRef, dummy |-> r.dummy]

Map(a, fn) ==
  /\ Running /\ CanCreate
  /\ Allocate(mapInstance(insts[a], fn))
  /\ last' = WithFn(Result("map", a, -1, -1, "none", <<>>, FALSE,
                            Len(insts) + 1), fn)
  /\ UNCHANGED sat
  /\ Step

\* forEach(f): f is called with every slot and its flag of the dummy mask
ForEach(a) ==
  /\ Running
  /\ insts' = InstsAfterDummy(a)
  /\ indexMasks' = MasksAfterDummy(a)
  /\ last' = Result("forEach", a, -1, -1, "none",
                    dummyMask(insts[a], indexMasks[insts[a].masksRef]), FALSE, 0)
  /\ UNCHANGED <<indicesInRange, sat>>
  /\ Step

\* the callbacks reduce() is called with, and the initial state of each:
\* "append" collects the elements, "sum" adds them up
ReduceFns == {"append", "sum"}

Initial(fn) == IF fn = "append" THEN <<>> ELSE <<0>>

\* f(state, t, isDummy)
Fold(fn, state, t, isDummy) ==
  IF fn = "append" THEN Append(state, t) ELSE <<state[1] + t>>

\* reduce(stateType, state, f): state = Provable.if(isDummy, state, newState)
\* for every slot, in index order
RECURSIVE reduce(_, _, _, _, _)
reduce(state, array, mask, fn, k) ==
  IF k > Len(array) THEN state
  ELSE LET newState == Fold(fn, state, array[k], mask[k])
       IN reduce(IF mask[k] THEN state ELSE newState, array, mask, fn, k + 1)

Reduce(a, fn) ==
  /\ Running
  /\ insts' = InstsAfterDummy(a)
  /\ indexMasks' = MasksAfterDummy(a)
  /\ LET r == insts[a]
         mask == dummyMask(r, indexMasks[r.masksRef])
     IN last' = WithFn(Result("reduce", a, -1, -1, "none",
                              reduce(Initial(fn), r.array, mask, fn, 1),
                              FALSE, 0), fn)
  /\ UNCHANGED <<indicesInRange, sat>>
  /\ Step

\* isDummyIndex(i) with a number i: this._dummyMask()[i], undefined beyond
\* the array
IsDummyIndex(a, i) ==
  /\ Running
  /\ insts' = InstsAfterDummy(a)
  /\ indexMasks' = MasksAfterDummy(a)
  /\ LET r == insts[a]
         mask == dummyMask(r, indexMasks[r.masksRef])
     IN last' = Result("isDummyIndex", a, i, -1, "none",
                       IF i < r.cap THEN <<mask[i + 1]>> ELSE <<>>, FALSE, 0)
  /\ UNCHANGED <<indicesInRange, sat>>
  /\ Step

\* variant: only the slots below the length are compared
equalsPrefix(r, o) ==
  /\ r.length = o.length
  /\ \A j \in 1..r.cap : j <= r.length => r.array[j] = o.array[j]

\* this.length.assertEquals(other.length) and Provable.assertEqual on every
\* pair of zip(this.array, other.array)
equalsStrict(r, o) ==
  /\ r.length = o.length
  /\ \A j \in 1..r.cap : r.array[j] = o.array[j]

\* assertEqualsStrict(other): a thrown error when the maxLength differs,
\* else assertions on the length and on every slot
AssertEqualsStrict(a, b) ==
  /\ Running
  /\ LET r == insts[a]
         o == insts[b]
     IN IF r.cap # o.cap
        THEN /\ last' = Result("assertEqualsStrict", a, -1, -1, "config", <<>>,
                               FALSE, b)
             /\ UNCHANGED sat
        ELSE LET ok == equalsStrict(r, o)
             IN /\ sat' = ok
                /\ last' = Result("assertEqualsStrict", a, -1, -1,
                                  IF ok THEN "none" ELSE "unsat", <<>>, FALSE, b)
  /\ UNCHANGED <<insts, indexMasks, indicesInRange>>
  /\ Read

\* hash() of an instance whose element type has bit size es
Hash(a, es) ==
  /\ Running
  /\ insts' = InstsAfterDummy(a)
  /\ indexMasks' = MasksAfterDummy(a)
  /\ LET r == insts[a]
         ok == paddingIsNull(r, dummyMask(r, indexMasks[r.masksRef]))
     IN /\ sat' = ok
        /\ last' = IF ok
                   THEN Result("hash", a, -1, -1, "none",
                               hashValue(r, es), FALSE, 0)
                   ELSE Result("hash", a, -1, -1, "unsat", <<>>, FALSE, 0)
  /\ UNCHANGED indicesInRange
  /\ Step

\* variant: the grown instance takes the new maxLength as its length
growInstanceFull(r, cap, self) ==
  [cap |-> cap, array |-> pad(r.array, cap, NULL),
   length |-> cap, lenOwner |-> self,
   masksRef |-> self, rangeRef |-> self, dummy |-> NoMask]

\* growMaxLengthTo(maxLength): a new object with fresh caches
growInstance(r, cap, self) ==
  [cap |-> cap, array |-> pad(r.array, cap, NULL),
   length |-> r.length, lenOwner |-> r.lenOwner,
   masksRef |-> self, rangeRef |-> self, dummy |-> NoMask]

GrowMaxLengthTo(a, cap) ==
  /\ Running /\ CanCreate
  /\ IF cap >= insts[a].cap
     THEN /\ Allocate(growInstance(insts[a], cap, Len(insts) + 1))
          /\ last' = Result("growMaxLengthTo", a, cap, -1, "none", <<>>, FALSE,
                            Len(insts) + 1)
     ELSE /\ last' = Result("growMaxLengthTo", a, cap, -1, "config", <<>>,
                            FALSE, 0)
          /\ UNCHANGED <<insts, indexMasks, indicesInRange>>
  /\ UNCHANGED sat
  /\ Step

ToValue(a) ==
  /\ Running
  /\ last' = Result("toValue", a, -1, -1, "none", toValue(insts[a]), FALSE, 0)
  /\ UNCHANGED <<insts, indexMasks, indicesInRange, sat>>
  /\ Read

Indices == 0 .. MaxIdx

Next ==
  \/ \E a \in Insts : \E cap \in Caps : FromInstance(a, cap)
  \/ \E a \in Insts : \E i \in Indices : Get(a, i)
  \/ \E a \in Insts : \E i \in Indices : GetOption(a, i)
  \/ \E a \in Insts : \E i \in Indices : GetOrUnconstrained(a, i)
  \/ \E a \in Insts : \E i \in Indices : \E v \in Values :
       SetOrDoNothing(a, i, v)
  \/ \E a \in Insts : \E i \in Indices : \E v \in Values :
       Set(a, i, v)
  \/ \E a \in Insts : \E v \in Values : Push(a, v)
  \/ \E a \in Insts : \E fn \in MapFns : Map(a, fn)
  \/ \E a \in Insts : ForEach(a)
  \/ \E a \in Insts : \E fn \in ReduceFns : Reduce(a, fn)
  \/ \E a \in Insts : \E i \in Indices : IsDummyIndex(a, i)
  \/ \E a \in Insts : \E b \in Insts : AssertEqualsStrict(a, b)
  \/ \E a \in Insts : \E es \in ElementSizes : Hash(a, es)
  \/ \E a \in Insts : \E cap \in Caps : GrowMaxLengthTo(a, cap)
  \/ \E a \in Insts : ToValue(a)

Spec == Init /\ [][Next]_vars

\* ------------------------------------------------- types and construction
\* maxLength arguments a type is defined with: around 0 and around 2^16
TypeLengths == {-1, 0, MaxCap, MaxLengthLimit - 1, MaxLengthLimit}

\* variant: 2^16 itself is accepted
maxLengthUpTo(maxLength) == maxLength >= 0 /\ maxLength <= MaxLengthLimit

\* DynamicArray(type, {maxLength}): the two asserts on maxLength
maxLengthAllowed(maxLength) == maxLength >= 0 /\ maxLength < MaxLengthLimit

\* DynamicArray(type, {maxLength}): a class, or a thrown error
DefineType(maxLength) ==
  /\ Running
  /\ last' = Result("DynamicArray", 0, maxLength, -1,
                    IF maxLengthAllowed(maxLength) THEN "none" ELSE "config",
                    <<>>, FALSE, 0)
  /\ UNCHANGED <<insts, indexMasks, indicesInRange, sat>>
  /\ Read

\* host arrays, the longest one too long for every type
HostArrays == UNION {[1..n -> Values] : n \in 0 .. MaxCap + 1}

\* provable construction from an array and a length: the constructor, which
\* throws when the array does not have maxLength elements, then the length
\* check of withAdditionalCheck
Construct(cap, array, length) ==
  /\ Running /\ CanCreate
  /\ IF Len(array) # cap
     THEN /\ last' = Result("new", 0, cap, length, "config", array, FALSE, 0)
          /\ UNCHANGED <<insts, indexMasks, indicesInRange, sat>>
     ELSE /\ Allocate(NewInstance(cap, array, length, Len(insts) + 1,
                                  Len(insts) + 1))
          /\ sat' = InRange16(length, cap)
          /\ last' = Result("new", 0, cap, length,
                            IF InRange16(length, cap) THEN "none" ELSE "unsat",
                            array, FALSE, Len(insts) + 1)
  /\ Step

\* DynamicArray_.from(xs) of a plain array: pad() throws when xs is longer
\* than maxLength
FromArray(cap, xs) ==
  /\ Running /\ CanCreate
  /\ IF Len(xs) > cap
     THEN /\ last' = Result("from", 0, cap, -1, "config", xs, FALSE, 0)
          /\ UNCHANGED <<insts, indexMasks, indicesInRange>>
     ELSE /\ Allocate(fromArray(cap, xs, Len(insts) + 1))
          /\ last' = Result("from", 0, cap, -1, "none", xs, FALSE,
                            Len(insts) + 1)
  /\ UNCHANGED sat
  /\ Step

\* the calls that define types and build instances
NextConfig ==
  \/ \E maxLength \in TypeLengths : DefineType(maxLength)
  \/ \E cap \in Caps : \E array \in HostArrays : \E length \in 0 .. MaxCap + 1 :
       Construct(cap, array, length)
  \/ \E cap \in Caps : \E xs \in HostArrays : FromArray(cap, xs)
  \/ \E a \in Insts : \E cap \in Caps : FromInstance(a, cap)
  \/ \E a \in Insts : \E cap \in Caps : GrowMaxLengthTo(a, cap)

SpecConfig == Init /\ [][NextConfig]_vars

\* ---------------------------------------------------------------- claims
\* a step that is the call op counted by the pass
Called(op) == last'.op = op /\ ops' # ops

\* C1 (as stated): get(i) with 0 <= i < length returns exactly the value
\* stored in slot i, and get(i) with length <= i < maxLength is unsatisfiable.
C1_GetReturnsSlotOrFails ==
  last.op = "get" =>
    LET r == insts[last.a] IN
    IF last.i < r.length
    THEN last.err = "none" /\ last.out = <<r.array[last.i + 1]>>
    ELSE last.i < r.cap => last.err = "unsat"

\* C2 (as stated): set(i, v) with i < length stores v in slot i, so that
\* get(i) returns v, and changes no other slot and not the length;
\* set(i, v) with i >= length is unsatisfiable.
C2_SetStoresOrFails ==
  [][Called("set") =>
       LET a == last'.a
           i == last'.i
           r == insts[a]
       IN IF i < r.length
          THEN /\ last'.err = "none"
               /\ getOrUnconstrained(insts'[a], i) = {last'.v}
               /\ \A j \in 1..r.cap : j # i + 1 => insts'[a].array[j] = r.array[j]
               /\ insts'[a].length = r.length
          ELSE last'.err = "unsat"]_vars

\* C3: push(v) with length L < maxLength makes the length L+1, stores v in
\* slot L and changes no other slot, and a get(L) that follows passes its
\* range check and returns v; push(v) with L = maxLength is unsatisfiable.
C3_PushAppendsOrFails ==
  [][Called("push") =>
       LET a == last'.a
           r == insts[a]
           L == r.length
       IN IF L < r.cap
          THEN /\ last'.err = "none" /\ sat'
               /\ insts'[a].length = L + 1
               /\ insts'[a].array[L + 1] = last'.v
               /\ \A j \in 1..r.cap : j # L + 1 => insts'[a].array[j] = r.array[j]
               /\ indexInRange(insts'[a], L, indicesInRange'[insts'[a].rangeRef])
               /\ getOrUnconstrained(insts'[a], L) = {last'.v}
          ELSE last'.err = "unsat" /\ ~sat']_vars

\* a push of a non-empty value into a non-empty array that was not full
C3_Witness ==
  /\ last.op = "push" /\ last.err = "none" /\ last.v # NULL
  /\ insts[last.a].length >= 2

hashOk(a) ==
  paddingIsNull(insts[a], dummyMask(insts[a], indexMasks[insts[a].masksRef]))

SamePrefix(a, b) ==
  insts[a].length = insts[b].length /\ toValue(insts[a]) = toValue(insts[b])

C6_HashInputsInjective ==
  sat => \A a \in Insts : \A b \in a + 1 .. Len(insts) : \A es \in ElementSizes :
           ~SamePrefix(a, b) =>
             hashValue(insts[a], es) # hashValue(insts[b], es)

\* hash() returned on one of two instances with the same slots and
\* different lengths
C6_Witness ==
  /\ sat /\ Len(insts) = 2
  /\ insts[1].array = insts[2].array /\ insts[1].length # insts[2].length
  /\ last.op = "hash" /\ last.err = "none"

\* C7: getOption(i) never fails, its isSome is (i < length), and when isSome
\* is true its value is slot i.
C7_GetOptionFlag ==
  last.op = "getOption" =>
    LET r == insts[last.a] IN
    /\ last.err = "none" /\ sat
    /\ last.flag = (last.i < r.length)
    /\ last.flag => last.out = <<r.array[last.i + 1]>>

\* getOption on a padding slot that holds a non-empty value
C7_Witness ==
  /\ last.op = "getOption" /\ ~last.flag
  /\ last.i < insts[last.a].cap
  /\ insts[last.a].array[last.i + 1] # NULL

\* C8: setOrDoNothing(i, v) with i outside [0, maxLength) changes no slot
\* and no length, and no constraint fails.
C8_SetOutsideArrayDoesNothing ==
  [][(Called("setOrDoNothing") /\ last'.i >= insts[last'.a].cap) =>
       insts' = insts /\ sat' = sat /\ last'.err = "none"]_vars

\* setOrDoNothing of a non-empty value beyond a non-empty backing array
C8_Witness ==
  /\ last.op = "setOrDoNothing" /\ last.v # NULL
  /\ insts[last.a].cap >= 1 /\ last.i >= insts[last.a].cap

\* C9: from(xs).toValue() = xs with length = len(xs), and from(a) of an
\* instance a has the length and the slots[0..length) of a; toValue is the
\* first length slots.
C9_RoundTrip ==
  (last.op = "from" /\ last.err = "none") =>
    LET b == insts[last.ref] IN
    /\ toValue(b) = last.out
    /\ b.length = Len(last.out)
    /\ b.cap = last.i
    /\ last.a # 0 =>
         /\ last.out = SubSeq(insts[last.a].array, 1, insts[last.a].length)
         /\ SamePrefix(last.a, last.ref)

\* from() of an instance with a non-empty padding slot, to another maxLength
C9_Witness ==
  /\ last.op = "from" /\ last.err = "none" /\ last.a # 0
  /\ last.ref # last.a
  /\ LET r == insts[last.a] IN
       /\ r.length >= 1 /\ r.length < r.cap
       /\ r.array[r.length + 1] # NULL

\* C10: growMaxLengthTo(N2) with N2 >= maxLength returns a new instance of
\* maxLength N2 with the same length, the old slots copied and the added
\* slots empty, so the same toValue(); no instance that existed changes and
\* no constraint fails.
C10_GrowKeepsContent ==
  [][(Called("growMaxLengthTo") /\ last'.i >= insts[last'.a].cap) =>
       LET r == insts[last'.a]
           b == insts'[last'.ref]
       IN /\ last'.err = "none" /\ sat' = sat
          /\ last'.ref = Len(insts) + 1
          /\ SubSeq(insts', 1, Len(insts)) = insts
          /\ b.cap = last'.i /\ Len(b.array) = last'.i
          /\ b.length = r.length
          /\ \A j \in 1..b.cap :
               b.array[j] = IF j <= r.cap THEN r.array[j] ELSE NULL
          /\ toValue(b) = toValue(r)
          /\ SubSeq(indicesInRange', 1, Len(insts)) = indicesInRange
          /\ SubSeq(indexMasks', 1, Len(insts)) = indexMasks]_vars

\* a non-empty instance grown to a larger maxLength
C10_Witness ==
  /\ last.op = "growMaxLengthTo" /\ last.err = "none"
  /\ insts[last.ref].cap > insts[last.a].cap
  /\ insts[last.a].length >= 1

\* C11: a.map(type, f) returns a new instance with the maxLength and the
\* length of a whose slot j is f(slot j of a, j) for every j below maxLength,
\* so its toValue() is the map of f over a.toValue(); no instance that
\* existed changes.
C11_MapAppliesCallback ==
  [][Called("map") =>
       LET r  == insts[last'.a]
           b  == insts'[last'.ref]
           fn == last'.fn
       IN /\ last'.err = "none" /\ sat' = sat
          /\ last'.ref = Len(insts) + 1
          /\ b.cap = r.cap /\ Len(b.array) = r.cap
          /\ b.length = r.length
          /\ \A j \in 1..r.cap : b.array[j] = Apply(fn, r.array[j], j - 1)
          /\ toValue(b) = [j \in 1..Len(toValue(r)) |->
                             Apply(fn, toValue(r)[j], j - 1)]
          /\ SubSeq(insts', 1, Len(insts)) = insts]_vars

\* map with a callback that changes values, on an instance that has a
\* non-empty prefix and a padding slot the callback maps to a non-empty value
C11_Witness ==
  /\ last.op = "map" /\ last.fn = "next"
  /\ LET r == insts[last.a] IN
       /\ r.length >= 1 /\ r.length < r.cap
       /\ insts[last.ref].array[r.cap] # NULL

\* the left fold of the callback fn over a host sequence
RECURSIVE LeftFold(_, _, _)
LeftFold(fn, state, xs) ==
  IF xs = <<>> THEN state
  ELSE LeftFold(fn, Fold(fn, state, Head(xs), FALSE), Tail(xs))

\* C12 (as stated): reduce(initial, f) returns the left fold of f over
\* exactly slots[0..length) in index order, in every reachable state of the
\* instance, whatever its padding slots hold.
C12_ReduceFoldsPrefix ==
  (last.op = "reduce" /\ last.err = "none") =>
    last.out = LeftFold(last.fn, Initial(last.fn), toValue(insts[last.a]))

\* C13: a type with maxLength < 0 or maxLength >= 2^16, a construction from
\* an array whose size is not maxLength, a conversion of a host array longer
\* than maxLength and growMaxLengthTo below the current maxLength each throw,
\* and a call that throws creates no instance, changes none and leaves the
\* constraint system as it was.
C13_ConfigErrors ==
  [][/\ Called("DynamicArray") =>
          (last'.err = "config") = (last'.i < 0 \/ last'.i >= 65536)
     /\ (Called("new") /\ Len(last'.out) # last'.i) => last'.err = "config"
     /\ (Called("from") /\ Len(last'.out) > last'.i) => last'.err = "config"
     /\ (Called("growMaxLengthTo") /\ last'.i < insts[last'.a].cap) =>
          last'.err = "config"
     /\ (ops' # ops /\ last'.err = "config") =>
          /\ insts' = insts /\ sat' = sat
          /\ indexMasks' = indexMasks /\ indicesInRange' = indicesInRange
          /\ last'.ref = 0]_vars

\* a type defined with maxLength 2^16 was refused in a pass that holds two
\* instances
C13_Witness ==
  /\ last.op = "DynamicArray" /\ last.i = 65536 /\ last.err = "config"
  /\ Len(insts) = 2 /\ sat

\* C14: a.assertEqualsStrict(b) succeeds exactly when a and b have the same
\* maxLength, the same length and the same value in every slot, padding
\* included; it fails on equal length and prefix with different padding or
\* different maxLength, and it changes no instance.
C14_StrictEquality ==
  [][Called("assertEqualsStrict") =>
       LET r == insts[last'.a]
           o == insts[last'.ref]
       IN /\ (last'.err = "none" /\ sat') =
               (r.cap = o.cap /\ r.length = o.length /\ r.array = o.array)
          /\ (SamePrefix(last'.a, last'.ref) /\ r.array # o.array) =>
               last'.err # "none"
          /\ insts' = insts]_vars

\* assertEqualsStrict failed on two instances of the same maxLength with the
\* same length and prefix
C14_Witness ==
  /\ last.op = "assertEqualsStrict" /\ last.err = "unsat" /\ ~sat
  /\ insts[last.a].cap = insts[last.ref].cap
  /\ insts[last.a].length >= 1
  /\ SamePrefix(last.a, last.ref)

\* what get, getOption, forEach, reduce and hash on an instance r depend on:
\* its slots and length, which indices pass its range assertion, its dummy
\* mask and whether its hash() is satisfiable
Observed(r, masks, ranges) ==
  LET dummy == dummyMask(r, masks[r.masksRef]) IN
  [array   |-> r.array,
   length  |-> r.length,
   inRange |-> {i \in Indices : indexInRange(r, i, ranges[r.rangeRef])},
   dummy   |-> dummy,
   hashOk  |-> paddingIsNull(r, dummy)]

\* C15 (as stated): a call on one instance changes neither the results nor
\* the satisfiability of get, getOption, forEach, reduce and hash on any
\* other instance, also for two instances of which one is the map() of the
\* other.
C15_OtherInstanceUntouched ==
  [][\A a \in Insts :
       (ops' # ops /\ last'.a # a) =>
         Observed(insts'[a], indexMasks', indicesInRange')
           = Observed(insts[a], indexMasks, indicesInRange)]_vars

C17_FromReturnsNewInstance ==
  (last.op = "from" /\ last.err = "none" /\ last.a # 0) => last.ref # last.a

\* the dummy mask forEach, reduce and hash of an instance r would use
CurrentDummyMask(r) == dummyMask(r, indexMasks[r.masksRef])

\* C18 (as stated): in every reachable state the dummy mask that forEach,
\* reduce and hash use has dummy[j] = (j >= length) for every j below
\* maxLength, also after pushes that follow an earlier forEach, reduce, hash
\* or isDummyIndex; it is all false when length = maxLength.
C18_DummyMaskFollowsLength ==
  sat => \A a \in Insts :
           LET r == insts[a] IN
           /\ Len(CurrentDummyMask(r)) = r.cap
           /\ \A j \in 1..r.cap : CurrentDummyMask(r)[j] = (j - 1 >= r.length)

\* C19: every index mask an instance holds or computes has maxLength
\* entries with mask[j] = (i = j) for the value i of the queried index
\* object: at most one entry is true, none when i is outside
\* [0, maxLength), and a repeated query finds a cached mask of that content.
C19_IndexMaskOneHot ==
  \A a \in Insts :
    LET r == insts[a]
        cache == indexMasks[r.masksRef]
        queried == DOMAIN cache \cup {IdxField(i) : i \in Indices}
                     \cup {LengthField(r)}
    IN \A f \in queried :
         LET mask == indexMask(cache, f, r.cap) IN
         /\ Len(mask) = r.cap
         /\ \A j \in 1..r.cap : mask[j] = (FieldValue(f) = j - 1)
         /\ Cardinality({j \in 1..r.cap : mask[j]}) <= 1
         /\ (FieldValue(f) < 0 \/ FieldValue(f) >= r.cap) =>
              \A j \in 1..r.cap : ~mask[j]

\* an instance whose cache holds the mask of an index inside of its array
\* and the mask of an index beyond it
C19_Witness ==
  \E a \in Insts :
    LET r == insts[a]
        cache == indexMasks[r.masksRef]
    IN /\ r.cap >= 2
       /\ \E f \in DOMAIN cache : FieldValue(f) >= r.cap
       /\ \E f \in DOMAIN cache : FieldValue(f) = r.cap - 1

\* C20 (as stated): hash() is satisfiable on every instance whose slots
\* j >= length all pack to the value of the empty element, right after a
\* push(v) of any v included, and unsatisfiable on an instance that has a
\* slot j >= length packing to another value.
C20_HashAssertsPadding ==
  last.op = "hash" =>
    LET r == insts[last.a] IN
    (last.err = "none") =
      (\A j \in 1..r.cap :
         j - 1 >= r.length => packToField(r.array[j]) = packToField(NULL))

C22_SetBeyondLengthDoesNothing ==
  [][(Called("setOrDoNothing") /\ last'.i >= insts[last'.a].length) =>
       LET r == insts[last'.a]
           q == insts'[last'.a]
       IN /\ q.array = r.array /\ q.length = r.length
          /\ paddingIsNull(r, dummyMask(r, indexMasks[r.masksRef])) =>
               paddingIsNull(q, dummyMask(q, indexMasks'[q.masksRef]))]_vars

\* C23 (as stated): in every reachable state every index object recorded in
\* the in-range cache of an instance has a value below the current length of
\* that instance, so a skipped range check never accepts an index >= length.
C23_CachedIndicesBelowLength ==
  sat => \A a \in Insts :
           \A f \in indicesInRange[insts[a].rangeRef] :
             FieldValue(f) < insts[a].length

\* the calls that only read the instance they are called on
ReadOnlyOps ==
  {"get", "getOption", "getOrUnconstrained", "forEach", "reduce", "hash",
   "assertEqualsStrict", "toValue", "map", "growMaxLengthTo", "isDummyIndex"}

\* C24: get, getOption, getOrUnconstrained, forEach, reduce, hash,
\* assertEqualsStrict, toValue, map and growMaxLengthTo leave the slots and
\* the length of the instance they are called on unchanged, and no call
\* decreases the length of an instance.
C24_ReadOnlyCallsKeepContent ==
  [][/\ (ops' # ops /\ last'.op \in ReadOnlyOps) =>
          /\ insts'[last'.a].array = insts[last'.a].array
          /\ insts'[last'.a].length = insts[last'.a].length
     /\ \A a \in Insts : insts'[a].length >= insts[a].length]_vars

\* hash() returned on an instance that was changed before, by a push of a
\* non-empty value
C24_Witness ==
  /\ last.op = "hash" /\ last.err = "none" /\ ops >= 2
  /\ LET r == insts[last.a] IN
       /\ r.lenOwner = last.a /\ r.length >= 1 /\ r.length < r.cap
       /\ r.array[r.length] # NULL
====
